---- MODULE Spec2Model ----
(***************************************************************************)
(* A model of ec2.py: the class-level instance cache (instances.all,       *)
(* instances.clear), the Django-style filter (instances.filter, _comp) and *)
(* the comparison functions of _Compare.                                   *)
(*                                                                         *)
(* Python strings are sequences of one-character strings, so that          *)
(* str.lower, str.startswith, str.endswith, the `in` substring test,       *)
(* str.rsplit and re.match are computed character by character.            *)
(* A Python value is [isStr |-> TRUE, s |-> chars] for a string, or NoneV   *)
(* for None (any object without string methods).  The outcome of a call    *)
(* is Return(v) or Raise(e).                                               *)
(***************************************************************************)
EXTENDS Integers, Sequences, FiniteSets, TLC

VARIABLES
    cached,          \* hasattr(cls, '_instances')
    _instances,      \* cls._instances (<<>> while the attribute is absent)
    fetches,         \* number of calls of conn.get_all_instances() so far
    op,              \* the last call: "start", "all", "filter", "clear", "comp"
    ret,             \* the outcome of the last call
    kwargs,          \* the keyword arguments of the last filter call
    order,           \* the order in which `for key in kwargs` visited them
    before,          \* cached, _instances and fetches as the last call found them
    calls,           \* number of calls made so far
    emptyAccesses,   \* number of all()/filter() calls made while nothing was cached
    sinceClear,      \* what happened since the last clear() (or process start)
    compArgs         \* the arguments of a direct _comp call

vars == <<cached, _instances, fetches, op, ret, kwargs, order, before, calls,
          emptyAccesses, sinceClear, compArgs>>

---------------------------------------------------------------------------
(* Python values and outcomes *)

S(chars) == [isStr |-> TRUE, s |-> chars]

NoneV == [isStr |-> FALSE, s |-> <<>>]

NoError == [type |-> "", obj |-> "", arg |-> <<>>]

Return(v) == [kind |-> "ok", val |-> v, err |-> NoError]

Raise(e) == [kind |-> "err", val |-> NoneV, err |-> e]

\* AttributeError: '<obj>' object has no attribute '<name>'
AttributeError(obj, name) == [type |-> "AttributeError", obj |-> obj, arg |-> name]

\* AttributeError("No comparison '%s'" % comp)
NoComparison(comp) == [type |-> "AttributeError", obj |-> "No comparison", arg |-> comp]

TypeError(what) == [type |-> "TypeError", obj |-> what, arg |-> <<>>]

IsAttributeError(r) == r.kind = "err" /\ r.err.type = "AttributeError"

---------------------------------------------------------------------------
(* str methods *)

LowerChar(c) ==
    CASE c = "A" -> "a"
      [] c = "B" -> "b"
      [] c = "N" -> "n"
      [] c = "S" -> "s"
      [] OTHER -> c

Lower(s) == [i \in 1..Len(s) |-> LowerChar(s[i])]

StartsWith(s, prefix) ==
    /\ Len(prefix) <= Len(s)
    /\ SubSeq(s, 1, Len(prefix)) = prefix

EndsWith(s, suffix) ==
    /\ Len(suffix) <= Len(s)
    /\ SubSeq(s, Len(s) - Len(suffix) + 1, Len(s)) = suffix

\* sub in s
Contains(s, sub) ==
    \E i \in 0..(Len(s) - Len(sub)) : SubSeq(s, i + 1, i + Len(sub)) = sub

\* The positions at which '__' occurs in key.
SepPositions(key) ==
    {i \in 1..(Len(key) - 1) : key[i] = "_" /\ key[i + 1] = "_"}

Max(set) == CHOOSE x \in set : \A y \in set : y <= x

Min(set) == CHOOSE x \in set : \A y \in set : x <= y

\* key.rsplit('__', 1), for a key that holds '__'
RSplit(key) ==
    LET i == Max(SepPositions(key))
    IN  <<SubSeq(key, 1, i - 1), SubSeq(key, i + 2, Len(key))>>

---------------------------------------------------------------------------
(* re: patterns of literal characters and '.', which matches any character *)

re_compile(value, ignorecase) == [isStr |-> FALSE, s |-> value.s, I |-> ignorecase]

isinstance_basestring(value) == value.isStr

MatchChar(p, c, ignorecase) ==
    \/ p = "."
    \/ IF ignorecase THEN LowerChar(p) = LowerChar(c) ELSE p = c

\* pattern.match(target): a match starting at position 0
re_match(pattern, target) ==
    IF ~target.isStr
    THEN Raise(TypeError("expected string or buffer"))
    ELSE Return(/\ Len(pattern.s) <= Len(target.s)
                /\ \A i \in 1..Len(pattern.s) :
                       MatchChar(pattern.s[i], target.s[i], pattern.I))

---------------------------------------------------------------------------
(* Names, spelled as Python strings *)

N_exact == <<"e", "x", "a", "c", "t">>

N_iexact == <<"i", "e", "x", "a", "c", "t">>

N_like == <<"l", "i", "k", "e">>

N_regex == <<"r", "e", "g", "e", "x">>

N_ilike == <<"i", "l", "i", "k", "e">>

N_iregex == <<"i", "r", "e", "g", "e", "x">>

N_contains == <<"c", "o", "n", "t", "a", "i", "n", "s">>

N_icontains == <<"i", "c", "o", "n", "t", "a", "i", "n", "s">>

N_startswith == <<"s", "t", "a", "r", "t", "s", "w", "i", "t", "h">>

N_istartswith == <<"i", "s", "t", "a", "r", "t", "s", "w", "i", "t", "h">>

N_endswith == <<"e", "n", "d", "s", "w", "i", "t", "h">>

N_iendswith == <<"i", "e", "n", "d", "s", "w", "i", "t", "h">>

N_mro == <<"m", "r", "o">>

N_lower == <<"l", "o", "w", "e", "r">>

---------------------------------------------------------------------------
(* Instance records: attrs maps the names of the direct attributes to     *)
(* their values; tags is the tag mapping in its iteration order, a         *)
(* sequence of [k |-> key, v |-> value] with distinct keys.                *)

\* getattr(instance, key)
getattr(instance, key) ==
    IF key \in DOMAIN instance.attrs
    THEN Return(instance.attrs[key])
    ELSE Raise(AttributeError("Instance", key))

\* r, then f on its value: an exception raised by r propagates
Bind(r, f(_)) == IF r.kind = "err" THEN r ELSE f(r.val)

\* try: r / except AttributeError, e: handler(e)
TryExceptAttributeError(r, handler(_)) ==
    IF IsAttributeError(r) THEN handler(r.err) ELSE r

\* v.lower()
str_lower(v) ==
    IF v.isStr THEN Return(S(Lower(v.s)))
    ELSE Raise(AttributeError("NoneType", N_lower))

\* v.startswith(prefix)
str_startswith(v, prefix) ==
    IF v.isStr THEN Return(StartsWith(v.s, prefix.s))
    ELSE Raise(AttributeError("NoneType", N_startswith))

\* v.endswith(suffix)
str_endswith(v, suffix) ==
    IF v.isStr THEN Return(EndsWith(v.s, suffix.s))
    ELSE Raise(AttributeError("NoneType", N_endswith))

\* value in v
str_in(value, v) ==
    IF v.isStr THEN Return(Contains(v.s, value.s))
    ELSE Raise(TypeError("argument of type 'NoneType' is not iterable"))

\* for tag in instance.tags: if key == tag.lower(): return f(instance.tags[tag])
\* and, no tag found: raise e
TagFallback(key, instance, f(_), e) ==
    LET hits == {i \in 1..Len(instance.tags) : Lower(instance.tags[i].k) = key}
    IN  IF hits # {} THEN f(instance.tags[Min(hits)].v) ELSE Raise(e)

---------------------------------------------------------------------------
(* class _Compare *)

exact(key, value, instance) ==
    TryExceptAttributeError(
        Bind(getattr(instance, key), LAMBDA a : Return(a = value)),
        LAMBDA e : TagFallback(key, instance, LAMBDA t : Return(t = value), e))

iexact(key, value, instance) ==
    Bind(str_lower(value), LAMBDA v :
        TryExceptAttributeError(
            Bind(getattr(instance, key), LAMBDA a :
                Bind(str_lower(a), LAMBDA l : Return(l = v))),
            LAMBDA e : TagFallback(key, instance,
                LAMBDA t : Bind(str_lower(t), LAMBDA l : Return(l = v)), e)))

like(key, value, instance) ==
    LET pattern == IF isinstance_basestring(value)
                   THEN re_compile(value, FALSE) ELSE value
    IN  TryExceptAttributeError(
            Bind(getattr(instance, key), LAMBDA a : re_match(pattern, a)),
            LAMBDA e : TagFallback(key, instance,
                LAMBDA t : re_match(pattern, t), e))

ilike(key, value, instance) == like(key, re_compile(value, TRUE), instance)

contains(key, value, instance) ==
    TryExceptAttributeError(
        Bind(getattr(instance, key), LAMBDA a : str_in(value, a)),
        LAMBDA e : TagFallback(key, instance, LAMBDA t : str_in(value, t), e))

icontains(key, value, instance) ==
    Bind(str_lower(value), LAMBDA v :
        TryExceptAttributeError(
            Bind(getattr(instance, key), LAMBDA a :
                Bind(str_lower(a), LAMBDA l : str_in(v, l))),
            LAMBDA e : TagFallback(key, instance, LAMBDA t : str_in(v, t), e)))

startswith(key, value, instance) ==
    TryExceptAttributeError(
        Bind(getattr(instance, key), LAMBDA a : str_startswith(a, value)),
        LAMBDA e : TagFallback(key, instance,
            LAMBDA t : str_startswith(t, value), e))

istartswith(key, value, instance) ==
    Bind(str_lower(value), LAMBDA v :
        TryExceptAttributeError(
            Bind(getattr(instance, key), LAMBDA a : str_startswith(a, v)),
            LAMBDA e : TagFallback(key, instance,
                LAMBDA t : Bind(str_lower(t), LAMBDA l : str_startswith(l, v)), e)))

endswith(key, value, instance) ==
    TryExceptAttributeError(
        Bind(getattr(instance, key), LAMBDA a : str_endswith(a, value)),
        LAMBDA e : TagFallback(key, instance,
            LAMBDA t : str_endswith(t, value), e))

iendswith(key, value, instance) ==
    Bind(str_lower(value), LAMBDA v :
        TryExceptAttributeError(
            Bind(getattr(instance, key), LAMBDA a : str_endswith(a, v)),
            LAMBDA e : TagFallback(key, instance,
                LAMBDA t : Bind(str_lower(t), LAMBDA l : str_endswith(l, v)), e)))

\* The names for which hasattr(_Compare, comp) is true and that a key can
\* spell after its last '__': the twelve comparison functions, and mro, which
\* every new-style class has.
CompareAttrs ==
    {N_exact, N_iexact, N_like, N_regex, N_ilike, N_iregex, N_contains,
     N_icontains, N_startswith, N_istartswith, N_endswith, N_iendswith, N_mro}

hasattr_Compare(comp) == comp \in CompareAttrs

\* getattr(_Compare, comp)(key, value, instance)
CallCompare(comp, key, value, instance) ==
    CASE comp = N_exact -> exact(key, value, instance)
      [] comp = N_iexact -> iexact(key, value, instance)
      [] comp \in {N_like, N_regex} -> like(key, value, instance)
      [] comp \in {N_ilike, N_iregex} -> ilike(key, value, instance)
      [] comp = N_contains -> contains(key, value, instance)
      [] comp = N_icontains -> icontains(key, value, instance)
      [] comp = N_startswith -> startswith(key, value, instance)
      [] comp = N_istartswith -> istartswith(key, value, instance)
      [] comp = N_endswith -> endswith(key, value, instance)
      [] comp = N_iendswith -> iendswith(key, value, instance)
      [] comp = N_mro -> Raise(TypeError("mro() takes no arguments (3 given)"))

\* The (attribute, comparator) pair a field-spec names.
ParseKey(key) ==
    IF SepPositions(key) = {} THEN <<key, N_exact>> ELSE RSplit(key)

_comp(key, value, instance) ==
    LET parsed == ParseKey(key)
    IN  IF hasattr_Compare(parsed[2])
        THEN CallCompare(parsed[2], parsed[1], value, instance)
        ELSE Raise(NoComparison(parsed[2]))

---------------------------------------------------------------------------
(* class instances: cls is [cached |-> hasattr(cls, '_instances'),         *)
(* insts |-> cls._instances].  response is what conn.get_all_instances()   *)
(* returns when it is called: a sequence of reservations, each a sequence  *)
(* of instances.                                                           *)

NoCache == [cached |-> FALSE, insts |-> <<>>]

RECURSIVE Flatten(_)
\* [i for r in response for i in r.instances]
Flatten(response) ==
    IF response = <<>> THEN <<>>
    ELSE Head(response) \o Flatten(Tail(response))

\* all() without the hasattr test: the client is asked on every call
all_always_fetches(cls, response) ==
    [cls |-> [cached |-> TRUE, insts |-> Flatten(response)],
     ret |-> Return(Flatten(response)), fetched |-> 1]

all(cls, response) ==
    IF ~cls.cached
    THEN LET fetched == Flatten(response)
         IN  [cls |-> [cached |-> TRUE, insts |-> fetched],
              ret |-> Return(fetched), fetched |-> 1]
    ELSE [cls |-> cls, ret |-> Return(cls.insts), fetched |-> 0]

\* The builtin filter(lambda i: _comp(key, value, i), insts): a new list of
\* the instances for which the function is true; the first exception the
\* function raises propagates.
builtin_filter(key, value, insts) ==
    LET outs == [j \in 1..Len(insts) |-> _comp(key, value, insts[j])]
        raised == {j \in 1..Len(insts) : outs[j].kind = "err"}
    IN  IF raised # {}
        THEN Raise(outs[Min(raised)].err)
        ELSE Return(SelectSeq(insts, LAMBDA i : _comp(key, value, i).val))

\* the loop returning from inside its body: only the first key is applied
FilterLoop_first_key_only(ord, kw, insts) ==
    IF ord = <<>> THEN Return(insts)
    ELSE builtin_filter(Head(ord), kw[Head(ord)], insts)

RECURSIVE FilterLoop(_, _, _)
\* for key in kwargs: instances = filter(lambda i: _comp(...), instances)
\* with the keys of kwargs visited in the order ord
FilterLoop(ord, kw, insts) ==
    IF ord = <<>> THEN Return(insts)
    ELSE LET r == builtin_filter(Head(ord), kw[Head(ord)], insts)
         IN  IF r.kind = "err" THEN r ELSE FilterLoop(Tail(ord), kw, r.val)

\* filter() storing its narrowed list back into cls._instances
filter_narrows_cache(cls, kw, ord, response) ==
    LET a == all(cls, response)
        r == FilterLoop(ord, kw, a.ret.val)
    IN  [cls |-> IF r.kind = "ok" THEN [cached |-> TRUE, insts |-> r.val] ELSE a.cls,
         ret |-> r, fetched |-> a.fetched]

filter(cls, kw, ord, response) ==
    LET a == all(cls, response)
    IN  [cls |-> a.cls, ret |-> FilterLoop(ord, kw, a.ret.val),
         fetched |-> a.fetched]

\* clear() without the try/except around del
clear_unguarded(cls) ==
    IF cls.cached
    THEN [cls |-> NoCache, ret |-> Return(NoneV)]
    ELSE [cls |-> cls, ret |-> Raise(AttributeError("instances", <<"_", "i", "n", "s", "t", "a", "n", "c", "e", "s">>))]

\* clear() that deletes nothing
clear_keeps_cache(cls) == [cls |-> cls, ret |-> Return(NoneV)]

clear(cls) ==
    IF cls.cached
    THEN [cls |-> NoCache, ret |-> Return(NoneV)]
    ELSE \* del raises AttributeError, which the except clause passes over
         [cls |-> cls, ret |-> Return(NoneV)]

---------------------------------------------------------------------------
(* Inputs *)

A_state == <<"s", "t", "a", "t", "e">>

A_name == <<"n", "a", "m", "e">>

A_zone == <<"z", "o", "n", "e">>

T_Name == <<"N", "a", "m", "e">>

T_name == <<"n", "a", "m", "e">>

K_name_startswith == <<"n", "a", "m", "e", "_", "_", "s", "t", "a", "r", "t", "s", "w", "i", "t", "h">>

K_name_iexact == <<"n", "a", "m", "e", "_", "_", "i", "e", "x", "a", "c", "t">>

K_state_bogus == <<"s", "t", "a", "t", "e", "_", "_", "b", "o", "g", "u", "s">>

\* state "ab", no attribute name, a tag Name
web == [attrs |-> (A_state :> S(<<"a", "b">>)),
        tags |-> <<[k |-> T_Name, v |-> S(<<"A", "b">>)]>>]

\* state "b" and a direct attribute name, no tags
db == [attrs |-> (A_state :> S(<<"b">>)) @@ (A_name :> S(<<"a", "b">>)),
       tags |-> <<>>]

\* no state at all: neither the attribute nor a tag; name is None
old == [attrs |-> (A_name :> NoneV),
        tags |-> <<[k |-> T_Name, v |-> S(<<"a", "b">>)]>>]

\* What one reservation of a response may hold.
Reservations == {<<>>, <<web>>, <<db>>, <<old>>, <<web, db>>}

\* Longest response of conn.get_all_instances(), in reservations.
MaxReservations == 2

\* Most keyword arguments of one filter call.
MaxCriteria == 2

\* Most calls of all(), filter() and clear() in one run.
MaxCalls == 4

RECURSIVE SeqsUpTo(_, _)
\* The sequences over set of length at most n.
SeqsUpTo(set, n) ==
    IF n = 0 THEN {<<>>}
    ELSE LET shorter == SeqsUpTo(set, n - 1)
         IN  shorter \cup {Append(s, x) : s \in shorter, x \in set}

Responses == SeqsUpTo(Reservations, MaxReservations)

\* The keyword-argument mappings over these keys and values.
KwargsOver(keys, values) ==
    UNION {[ks -> values] : ks \in {x \in SUBSET keys : Cardinality(x) <= MaxCriteria}}

\* The orders in which iterating a dict with these keys may visit them.
Orders(ks) ==
    {s \in [1..Cardinality(ks) -> ks] : \A i, j \in 1..Cardinality(ks) : s[i] = s[j] => i = j}

Keys == {A_state, K_name_startswith, K_name_iexact, K_state_bogus, A_zone}

Values == {S(<<"a", "b">>), S(<<"b">>), S(<<"A">>)}

\* The filter calls of a run of several calls
FewKwargs == KwargsOver({A_state, A_zone}, {S(<<"a", "b">>)})

\* The filter calls made on one cache content
ManyKwargs == KwargsOver(Keys, Values)

---------------------------------------------------------------------------
(* The calls a program makes on the instances class *)

Cls == [cached |-> cached, insts |-> _instances]

Snapshot == [cached |-> cached, insts |-> _instances, fetches |-> fetches]

NoArgs == [key |-> <<>>, value |-> NoneV, instance |-> [attrs |-> <<>>, tags |-> <<>>]]

\* Since the last clear() (or process start): the all() and filter() calls,
\* the fetches, and what each all() returned.
NothingSinceClear == [accesses |-> 0, fetches |-> 0, allRets |-> <<>>]

Init ==
    /\ cached = FALSE
    /\ _instances = <<>>
    /\ fetches = 0
    /\ op = "start"
    /\ ret = Return(NoneV)
    /\ kwargs = <<>>
    /\ order = <<>>
    /\ before = [cached |-> FALSE, insts |-> <<>>, fetches |-> 0]
    /\ calls = 0
    /\ emptyAccesses = 0
    /\ sinceClear = NothingSinceClear
    /\ compArgs = NoArgs

\* What the client would answer: consulted only when the call fetches.
ResponsesNow == IF cached THEN {<<>>} ELSE Responses

\* ec2.instances.all()
All ==
    /\ calls < MaxCalls
    /\ \E response \in ResponsesNow :
         \E r \in {all(Cls, response)} :
             /\ cached' = r.cls.cached
             /\ _instances' = r.cls.insts
             /\ fetches' = fetches + r.fetched
             /\ ret' = r.ret
             /\ sinceClear' = [accesses |-> sinceClear.accesses + 1,
                               fetches |-> sinceClear.fetches + r.fetched,
                               allRets |-> Append(sinceClear.allRets, r.ret)]
    /\ op' = "all"
    /\ kwargs' = <<>>
    /\ order' = <<>>
    /\ before' = Snapshot
    /\ calls' = calls + 1
    /\ emptyAccesses' = emptyAccesses + (IF cached THEN 0 ELSE 1)
    /\ UNCHANGED compArgs

\* ec2.instances.filter(**kw), for kw in kwset
FilterWith(kwset) ==
    /\ \E response \in ResponsesNow, kw \in kwset :
         \E ord \in Orders(DOMAIN kw) :
           \E r \in {filter(Cls, kw, ord, response)} :
               /\ cached' = r.cls.cached
               /\ _instances' = r.cls.insts
               /\ fetches' = fetches + r.fetched
               /\ ret' = r.ret
               /\ kwargs' = kw
               /\ order' = ord
               /\ sinceClear' = [sinceClear EXCEPT
                                   !.accesses = @ + 1, !.fetches = @ + r.fetched]
    /\ op' = "filter"
    /\ before' = Snapshot
    /\ calls' = calls + 1
    /\ emptyAccesses' = emptyAccesses + (IF cached THEN 0 ELSE 1)
    /\ UNCHANGED compArgs

Filter ==
    /\ calls < MaxCalls
    /\ FilterWith(FewKwargs)

\* ec2.instances.clear()
Clear ==
    /\ calls < MaxCalls
    /\ \E r \in {clear(Cls)} :
           /\ cached' = r.cls.cached
           /\ _instances' = r.cls.insts
           /\ ret' = r.ret
    /\ op' = "clear"
    /\ kwargs' = <<>>
    /\ order' = <<>>
    /\ before' = Snapshot
    /\ calls' = calls + 1
    /\ sinceClear' = NothingSinceClear
    /\ UNCHANGED <<fetches, emptyAccesses, compArgs>>

Next == All \/ Filter \/ Clear

Spec == Init /\ [][Next]_vars

---------------------------------------------------------------------------
(* One filter call on every cache state: nothing cached yet, or any        *)
(* content cached by an earlier all().                                     *)

FilterInit ==
    /\ cached \in BOOLEAN
    /\ _instances \in (IF cached THEN {Flatten(r) : r \in Responses} ELSE {<<>>})
    /\ fetches = (IF cached THEN 1 ELSE 0)
    /\ op = (IF cached THEN "all" ELSE "start")
    /\ ret = (IF cached THEN Return(_instances) ELSE Return(NoneV))
    /\ kwargs = <<>>
    /\ order = <<>>
    /\ before = [cached |-> FALSE, insts |-> <<>>, fetches |-> 0]
    /\ calls = (IF cached THEN 1 ELSE 0)
    /\ emptyAccesses = (IF cached THEN 1 ELSE 0)
    /\ sinceClear = (IF cached
                     THEN [accesses |-> 1, fetches |-> 1, allRets |-> <<ret>>]
                     ELSE NothingSinceClear)
    /\ compArgs = NoArgs

FilterOnce ==
    /\ op # "filter"
    /\ FilterWith(ManyKwargs)

FilterNext == FilterOnce

FilterSpec == FilterInit /\ [][FilterNext]_vars

---------------------------------------------------------------------------
(* One direct call of _comp(key, value, instance) *)

CK_exact == <<"n", "a", "m", "e", "_", "_", "e", "x", "a", "c", "t">>

CK_iexact == <<"n", "a", "m", "e", "_", "_", "i", "e", "x", "a", "c", "t">>

CK_like == <<"n", "a", "m", "e", "_", "_", "l", "i", "k", "e">>

CK_regex == <<"n", "a", "m", "e", "_", "_", "r", "e", "g", "e", "x">>

CK_ilike == <<"n", "a", "m", "e", "_", "_", "i", "l", "i", "k", "e">>

CK_iregex == <<"n", "a", "m", "e", "_", "_", "i", "r", "e", "g", "e", "x">>

CK_contains == <<"n", "a", "m", "e", "_", "_", "c", "o", "n", "t", "a", "i", "n", "s">>

CK_icontains == <<"n", "a", "m", "e", "_", "_", "i", "c", "o", "n", "t", "a", "i", "n", "s">>

CK_startswith == <<"n", "a", "m", "e", "_", "_", "s", "t", "a", "r", "t", "s", "w", "i", "t", "h">>

CK_istartswith == <<"n", "a", "m", "e", "_", "_", "i", "s", "t", "a", "r", "t", "s", "w", "i", "t", "h">>

CK_endswith == <<"n", "a", "m", "e", "_", "_", "e", "n", "d", "s", "w", "i", "t", "h">>

CK_iendswith == <<"n", "a", "m", "e", "_", "_", "i", "e", "n", "d", "s", "w", "i", "t", "h">>

CK_mro == <<"n", "a", "m", "e", "_", "_", "m", "r", "o">>

CK_bogus == <<"n", "a", "m", "e", "_", "_", "b", "o", "g", "u", "s">>

CK_two_separators == <<"n", "a", "m", "e", "_", "_", "x", "_", "_", "i", "e", "x", "a", "c", "t">>

CK_three_underscores == <<"n", "a", "m", "e", "_", "_", "_", "i", "e", "x", "a", "c", "t">>

CK_trailing_separator == <<"n", "a", "m", "e", "_", "_">>

A_name_x == <<"n", "a", "m", "e", "_", "_", "x">>

A_name_ == <<"n", "a", "m", "e", "_">>

CompKeys ==
    {A_name, CK_exact, CK_iexact, CK_like, CK_regex, CK_ilike, CK_iregex,
     CK_contains, CK_icontains, CK_startswith, CK_istartswith, CK_endswith,
     CK_iendswith, CK_mro, CK_bogus, CK_two_separators, CK_three_underscores,
     CK_trailing_separator}

CompValues ==
    {S(<<"a">>), S(<<"A">>), S(<<"a", "b">>), S(<<"A", "b">>), S(<<".", "b">>),
     S(<<"B">>)}

\* A direct attribute name may be missing, None or a string.
CompAttrs ==
    {<<>>, (A_name :> NoneV), (A_name :> S(<<"a", "b">>)),
     (A_name :> S(<<"A", "b">>)), (A_name :> S(<<"a", "B">>)),
     (A_name_x :> S(<<"A", "b">>)), (A_name_ :> S(<<"A", "b">>))}

CompTags ==
    {<<>>,
     <<[k |-> T_Name, v |-> S(<<"a", "b">>)]>>,
     <<[k |-> T_Name, v |-> S(<<"A", "B">>)]>>,
     <<[k |-> T_Name, v |-> S(<<"b", "A">>)], [k |-> T_name, v |-> S(<<"a">>)]>>,
     <<[k |-> T_name, v |-> S(<<"a">>)], [k |-> T_Name, v |-> S(<<"b", "A">>)]>>}

CompInstances == [attrs : CompAttrs, tags : CompTags]

CompInit ==
    /\ cached = FALSE
    /\ _instances = <<>>
    /\ fetches = 0
    /\ op = "start"
    /\ ret = Return(NoneV)
    /\ kwargs = <<>>
    /\ order = <<>>
    /\ before = [cached |-> FALSE, insts |-> <<>>, fetches |-> 0]
    /\ calls = 0
    /\ emptyAccesses = 0
    /\ sinceClear = NothingSinceClear
    /\ compArgs \in [key : CompKeys, value : CompValues, instance : CompInstances]

\* _comp(key, value, instance)
Comp ==
    /\ op = "start"
    /\ op' = "comp"
    /\ ret' = _comp(compArgs.key, compArgs.value, compArgs.instance)
    /\ UNCHANGED <<cached, _instances, fetches, kwargs, order, before, calls,
                   emptyAccesses, sinceClear, compArgs>>

CompNext == Comp

CompSpec == CompInit /\ [][CompNext]_vars

---------------------------------------------------------------------------
(* Properties of the cache: Spec *)

\* C1: all() calls with no clear() in between all return the identical
\* sequence (same elements, same order), and two such calls have fetched
\* exactly once in total, whatever was fetched (an empty list included).
C1_AllTwiceIdenticalOneFetch ==
    /\ \A i, j \in 1..Len(sinceClear.allRets) :
           /\ sinceClear.allRets[i].kind = "ok"
           /\ sinceClear.allRets[i] = sinceClear.allRets[j]
    /\ Len(sinceClear.allRets) >= 2 => sinceClear.fetches = 1
    /\ (op = "all" /\ Len(sinceClear.allRets) >= 2) => fetches = before.fetches

C1_Witness ==
    /\ op = "all"
    /\ Len(sinceClear.allRets) = 2
    /\ Len(ret.val) = 2
    /\ ret.val[1] # ret.val[2]

\* C2: an all() or filter() call fetches exactly once when nothing is cached
\* (process start, or after clear()) and never otherwise, so that since the
\* last clear() there is one fetch if there was any access and none if there
\* was not, and the fetches number the accesses made on an empty cache.
C2_FetchOnlyOnEmptyCache ==
    /\ fetches = emptyAccesses
    /\ sinceClear.fetches = (IF sinceClear.accesses = 0 THEN 0 ELSE 1)
    /\ op \in {"all", "filter"} =>
           fetches = before.fetches + (IF before.cached THEN 0 ELSE 1)
    /\ op = "clear" => fetches = before.fetches

C2_Witness ==
    /\ fetches = 2
    /\ sinceClear.accesses = 2
    /\ op = "filter"

\* C8: clear() raises nothing and leaves nothing cached, also when nothing
\* was cached: the state after it is the state after a single clear().
C8_ClearIdempotent ==
    op = "clear" =>
        /\ ret = Return(NoneV)
        /\ Cls = NoCache
        /\ clear(Cls) = [cls |-> NoCache, ret |-> Return(NoneV)]

C8_Witness ==
    /\ op = "clear"
    /\ ~before.cached
    /\ before.fetches > 0

\* C9: a filter() call on a populated cache, returning or raising, leaves
\* the cached sequence as it was and fetches nothing, and an all() that
\* follows returns that full sequence without a fetch.
C9_FilterLeavesCache ==
    (op = "filter" /\ before.cached) =>
        /\ cached
        /\ _instances = before.insts
        /\ fetches = before.fetches
        /\ \A response \in Responses :
               /\ all(Cls, response).ret = Return(before.insts)
               /\ all(Cls, response).fetched = 0

C9_Witness ==
    /\ op = "filter"
    /\ before.cached
    /\ ret.kind = "ok"
    /\ Len(ret.val) < Len(_instances)
    /\ Len(ret.val) > 0

---------------------------------------------------------------------------
(* Properties of filter: FilterSpec *)

\* The comparators the documentation of filter lists, with the two aliases.
RecognizedComparators ==
    {N_exact, N_iexact, N_like, N_regex, N_ilike, N_iregex, N_contains,
     N_icontains, N_startswith, N_istartswith, N_endswith, N_iendswith}

Field(key) == ParseKey(key)[1]

Comparator(key) == ParseKey(key)[2]

\* Every criterion's predicate is true of the instance.
Satisfies(kw, instance) ==
    \A key \in DOMAIN kw : _comp(key, kw[key], instance) = Return(TRUE)

\* Neither a direct attribute nor a tag whose lower-cased key is the field.
Lacks(instance, field) ==
    /\ field \notin DOMAIN instance.attrs
    /\ \A i \in 1..Len(instance.tags) : Lower(instance.tags[i].k) # field

\* C3: a filter() call that returns, returns exactly the cached instances
\* that satisfy every criterion, in cached order: all of them when there
\* are no criteria, none when no instance satisfies them all.
C3_FilterIsConjunction ==
    (op = "filter" /\ ret.kind = "ok") =>
        /\ ret.val = SelectSeq(_instances, LAMBDA i : Satisfies(kwargs, i))
        /\ kwargs = <<>> => ret.val = _instances
        /\ (\A j \in 1..Len(_instances) : ~Satisfies(kwargs, _instances[j]))
               => ret.val = <<>>

C3_Witness ==
    /\ op = "filter"
    /\ ret.kind = "ok"
    /\ Cardinality(DOMAIN kwargs) = 2
    /\ Len(_instances) >= 3
    /\ Len(ret.val) >= 1
    /\ Len(ret.val) < Len(_instances)

\* C4: a filter() call with a criterion whose comparator is not a
\* recognized one raises the unknown-comparator error naming it, whatever
\* is cached (an empty list included) and whatever the other criteria are.
C4_UnknownComparatorAlwaysRaises ==
    op = "filter" =>
        \A key \in DOMAIN kwargs :
            Comparator(key) \notin RecognizedComparators =>
                /\ ret.kind = "err"
                /\ \E k \in DOMAIN kwargs : ret.err = NoComparison(Comparator(k))

\* C5: a filter() call, all of whose comparators are recognized, raises
\* the attribute-not-found error when some cached instance has neither the
\* attribute nor the tag that a criterion names; the instance is never
\* skipped.
C5_MissingAttributeAlwaysRaises ==
    (/\ op = "filter"
     /\ \A key \in DOMAIN kwargs : Comparator(key) \in RecognizedComparators) =>
        \A key \in DOMAIN kwargs :
            (\E j \in 1..Len(_instances) : Lacks(_instances[j], Field(key))) =>
                /\ ret.kind = "err"
                /\ \E k \in DOMAIN kwargs :
                       ret.err = AttributeError("Instance", Field(k))

SameOutcome(r1, r2) ==
    /\ r1.kind = r2.kind
    /\ r1.kind = "ok" => r1.val = r2.val

\* C10: the outcome of a filter() call is the same for every order in which
\* its criteria are applied: the same sequence, or an error in each.
C10_OrderIndependent ==
    op = "filter" =>
        \A ord \in Orders(DOMAIN kwargs) :
            SameOutcome(ret, FilterLoop(ord, kwargs, _instances))

---------------------------------------------------------------------------
(* Properties of the comparison functions: CompSpec *)

HasDirect == Field(compArgs.key) \in DOMAIN compArgs.instance.attrs

WithoutTags(instance) == [instance EXCEPT !.tags = <<>>]

\* C6: when the instance has a direct attribute named by the field, the
\* outcome of the predicate is the one the instance has without its tags.
C6_DirectAttributeAlone ==
    (/\ op = "comp"
     /\ Comparator(compArgs.key) \in RecognizedComparators
     /\ HasDirect) =>
        ret = _comp(compArgs.key, compArgs.value, WithoutTags(compArgs.instance))

LowerValue(v) == IF v.isStr THEN S(Lower(v.s)) ELSE v

\* The instance with every attribute value and tag value lower-cased.
LowerInstance(instance) ==
    [attrs |-> [a \in DOMAIN instance.attrs |-> LowerValue(instance.attrs[a])],
     tags |-> [i \in 1..Len(instance.tags) |->
                  [k |-> instance.tags[i].k, v |-> LowerValue(instance.tags[i].v)]]]

Counterpart(comp) ==
    CASE comp = N_iexact -> N_exact
      [] comp = N_icontains -> N_contains
      [] comp = N_istartswith -> N_startswith
      [] comp = N_iendswith -> N_endswith

\* The value compared is a string: the direct attribute, or, when there is
\* none, the tag.
ComparesString ==
    LET instance == compArgs.instance
        field == Field(compArgs.key)
    IN  IF field \in DOMAIN instance.attrs
        THEN instance.attrs[field].isStr
        ELSE ~Lacks(instance, field)

\* C7: iexact, icontains, istartswith and iendswith give what exact,
\* contains, startswith and endswith give on the lower-cased value of the
\* attribute (or tag) and the lower-cased expected value.
C7_CaseInsensitiveIsLowerCased ==
    (/\ op = "comp"
     /\ Comparator(compArgs.key) \in {N_iexact, N_icontains, N_istartswith, N_iendswith}
     /\ ComparesString) =>
        ret = CallCompare(Counterpart(Comparator(compArgs.key)),
                          Field(compArgs.key),
                          LowerValue(compArgs.value),
                          LowerInstance(compArgs.instance))

====
